---- MODULE Spec2Model ----
(***************************************************************************)
(* Model of the session-token core of kaltura-client-rs:                   *)
(*   src/src/models/session.rs  KalturaSession, KalturaSession::new        *)
(*   src/src/lib.rs             KalturaClientBuilder, generate_session,    *)
(*                              generate_session_v2, generate_privileges,  *)
(*                              session_duration                           *)
(*   src/src/crypto.rs          sha1, aes_encrypt                          *)
(* Strings and byte vectors are sequences of byte values (0..255).         *)
(***************************************************************************)
EXTENDS Integers, Sequences, FiniteSets, TLC

(* ------------------------------------------------------------------ *)
(* Bounds of the model                                                 *)
(* ------------------------------------------------------------------ *)
\* number of with_* calls made on one builder
MaxCalls == 2
\* number of seconds the wall clock may advance during a run
MaxTicks == 3

(* ------------------------------------------------------------------ *)
(* Characters and strings                                              *)
(* ------------------------------------------------------------------ *)
Ascii ==
  (" " :> 32) @@ ("%" :> 37) @@ ("&" :> 38) @@ ("*" :> 42) @@ ("+" :> 43) @@
  ("," :> 44) @@ ("-" :> 45) @@ ("." :> 46) @@ ("0" :> 48) @@ ("1" :> 49) @@
  ("2" :> 50) @@ (":" :> 58) @@ (";" :> 59) @@ ("=" :> 61) @@ ("_" :> 95) @@
  ("a" :> 97) @@ ("b" :> 98) @@ ("c" :> 99) @@ ("e" :> 101) @@ ("k" :> 107) @@
  ("l" :> 108) @@ ("o" :> 111) @@ ("s" :> 115) @@ ("t" :> 116) @@
  ("u" :> 117) @@ ("v" :> 118) @@ ("|" :> 124)

\* the byte string of a sequence of one-character strings
S(chars) == [i \in 1..Len(chars) |-> Ascii[chars[i]]]

Digit(d) == 48 + d

RECURSIVE DecNat(_)
DecNat(n) == IF n < 10 THEN <<Digit(n)>> ELSE DecNat(n \div 10) \o <<Digit(n % 10)>>

\* format!("{}", n) for an integer n
FmtInt(n) == IF n < 0 THEN S(<<"-">>) \o DecNat(0 - n) ELSE DecNat(n)

\* format!("{:02x}", b) for a byte b
HexDigit(d) == IF d < 10 THEN 48 + d ELSE 87 + d
FmtHexByte(b) == <<HexDigit(b \div 16), HexDigit(b % 16)>>

RECURSIVE FmtHex(_)
FmtHex(bytes) ==
  IF bytes = <<>> THEN <<>> ELSE FmtHexByte(Head(bytes)) \o FmtHex(Tail(bytes))

RECURSIVE Rev(_)
Rev(s) == IF s = <<>> THEN <<>> ELSE Rev(Tail(s)) \o <<Head(s)>>

RECURSIVE SumSeq(_)
SumSeq(s) == IF s = <<>> THEN 0 ELSE Head(s) + SumSeq(Tail(s))

Contains(s, c) == \E i \in 1..Len(s) : s[i] = c

(* ------------------------------------------------------------------ *)
(* f32 arithmetic of session_duration                                  *)
(* ------------------------------------------------------------------ *)
RECURSIVE Ulp(_, _)
\* spacing of the f32 values around the non-negative integer x
Ulp(x, p) == IF x \div p < 16777216 THEN p ELSE Ulp(x, 2 * p)

\* nearest f32 to the non-negative integer x, ties to even
F32(x) ==
  LET u == Ulp(x, 1)
      q == x \div u
      r == x % u
  IN  IF 2 * r < u THEN q * u
      ELSE IF 2 * r > u THEN (q + 1) * u
      ELSE IF q % 2 = 0 THEN q * u ELSE (q + 1) * u

\* session_duration(duration) when the clock reads `now` whole seconds:
\* as_secs_f32() + duration as f32, rounded to f32
session_duration(now, duration) ==
  LET a == F32(now)
      d == IF duration < 0 THEN 0 - F32(0 - duration) ELSE F32(duration)
  IN  F32(a + d)

(* ------------------------------------------------------------------ *)
(* crypto.rs                                                           *)
(* ------------------------------------------------------------------ *)
AES_KEY_LEN == 16
AES_BLOCK_SIZE == 16
AES_IV == [i \in 1..AES_KEY_LEN |-> 34]
SHA1_LEN == 20

\* sha1(data): a deterministic 20-byte digest of the data.  The SHA-1
\* compression function is abstracted by a position-dependent checksum.
sha1(data) ==
  [i \in 1..SHA1_LEN |-> (SumSeq(data) * (2 * i + 1) + 7 * Len(data) + 31 * i) % 256]

Zeros(n) == [i \in 1..n |-> 0]

RECURSIVE CbcEncrypt(_, _, _)
\* chained-block encryption of a block-aligned buffer: every block is mixed
\* with the previous cipher block (the IV for the first) and then with the key
CbcEncrypt(data, key, prev) ==
  IF data = <<>> THEN <<>>
  ELSE LET blk == SubSeq(data, 1, AES_BLOCK_SIZE)
           c   == [j \in 1..AES_BLOCK_SIZE |->
                     ((blk[j] + prev[j]) * 3 + key[j] + j) % 256]
       IN  c \o CbcEncrypt(SubSeq(data, AES_BLOCK_SIZE + 1, Len(data)), key, c)

\* the outcomes of Aes128CbcEnc::encrypt_padded_mut, a Result of the cbc crate:
\* aes_encrypt matches on both, and the crate's code is outside the repository,
\* so the variant is a choice of the environment
CipherOutcomes == {"Ok", "Err"}

\* aes_encrypt(&mut data, key, iv): `data` is the vector after the call (it is
\* padded and encrypted in place), `ret` the returned vector
aes_encrypt(data, key, iv, outcome) ==
  LET key16  == SubSeq(key, 1, AES_KEY_LEN)
      padded == IF Len(data) % AES_BLOCK_SIZE # 0
                THEN data \o Zeros(AES_BLOCK_SIZE - (Len(data) % AES_BLOCK_SIZE))
                ELSE data
  IN  IF outcome = "Ok"
      THEN LET c == CbcEncrypt(padded, key16, iv) IN [data |-> c, ret |-> c]
      ELSE [data |-> padded, ret |-> <<>>]

(* ------------------------------------------------------------------ *)
(* base64::engine::general_purpose::URL_SAFE                           *)
(* ------------------------------------------------------------------ *)
PAD == Ascii["="]

\* the character of the URL-safe alphabet for the 6-bit value v
B64Char(v) ==
  IF v < 26 THEN 65 + v
  ELSE IF v < 52 THEN 97 + (v - 26)
  ELSE IF v < 62 THEN 48 + (v - 52)
  ELSE IF v = 62 THEN 45 ELSE 95

RECURSIVE B64Body(_)
\* the alphabet characters of the encoding, without padding
B64Body(bytes) ==
  IF Len(bytes) = 0 THEN <<>>
  ELSE IF Len(bytes) = 1 THEN
    <<B64Char(bytes[1] \div 4), B64Char((bytes[1] % 4) * 16)>>
  ELSE IF Len(bytes) = 2 THEN
    <<B64Char(bytes[1] \div 4),
      B64Char((bytes[1] % 4) * 16 + bytes[2] \div 16),
      B64Char((bytes[2] % 16) * 4)>>
  ELSE
    <<B64Char(bytes[1] \div 4),
      B64Char((bytes[1] % 4) * 16 + bytes[2] \div 16),
      B64Char((bytes[2] % 16) * 4 + bytes[3] \div 64),
      B64Char(bytes[3] % 64)>> \o B64Body(SubSeq(bytes, 4, Len(bytes)))

\* URL_SAFE_NO_PAD.encode: the engine without padding
URL_SAFE_NO_PAD_encode(bytes) == B64Body(bytes)

\* URL_SAFE.encode: the URL-safe alphabet, padded with '=' to a multiple of 4
URL_SAFE_encode(bytes) ==
  B64Body(bytes) \o [i \in 1..((3 - (Len(bytes) % 3)) % 3) |-> PAD]

(* ------------------------------------------------------------------ *)
(* lib.rs: generate_privileges                                         *)
(* ------------------------------------------------------------------ *)
RECURSIVE IndexOf(_, _, _)
\* the first position >= i of the byte c in s (c occurs there)
IndexOf(s, c, i) == IF s[i] = c THEN i ELSE IndexOf(s, c, i + 1)

RECURSIVE Split(_, _)
\* str::split on one separator character: the segments, in order
Split(s, c) ==
  IF ~Contains(s, c) THEN <<s>>
  ELSE LET i == IndexOf(s, c, 1)
       IN  <<SubSeq(s, 1, i - 1)>> \o Split(SubSeq(s, i + 1, Len(s)), c)

RECURSIVE TrimStart(_)
TrimStart(s) == IF s # <<>> /\ Head(s) = Ascii[" "] THEN TrimStart(Tail(s)) ELSE s

\* str::trim
Trim(s) == Rev(TrimStart(Rev(TrimStart(s))))

\* the closure of the map() call: one segment to one (key, value) pair
PrivilegePair(privilege) ==
  LET line == Trim(privilege)
  IN  IF line = S(<<"*">>) THEN <<S(<<"a", "l", "l">>), S(<<"*">>)>>
      ELSE IF Contains(line, Ascii[":"])
      THEN LET parts == Split(line, Ascii[":"]) IN <<parts[1], parts[2]>>
      ELSE <<privilege, <<>>>>

\* the items of session.privileges.split(",").map(..), in order
PrivilegePairs(s) ==
  LET segs == Split(s.privileges, Ascii[","])
  IN  [i \in 1..Len(segs) |-> PrivilegePair(segs[i])]

EmptyMap == [k \in {} |-> <<>>]

\* HashMap::insert: the value of an existing key is replaced
Insert(m, k, v) == [x \in (DOMAIN m) \cup {k} |-> IF x = k THEN v ELSE m[x]]

RECURSIVE InsertAll(_, _)
\* HashMap::extend / collect: insert the pairs one after the other
InsertAll(m, pairs) ==
  IF pairs = <<>> THEN m
  ELSE InsertAll(Insert(m, Head(pairs)[1], Head(pairs)[2]), Tail(pairs))

\* generate_privileges: the pairs collected into a HashMap
generate_privileges(s) == InsertAll(EmptyMap, PrivilegePairs(s))

\* HashMap::extend with another map (its keys are distinct)
Extend(m, other) ==
  [x \in (DOMAIN m) \cup (DOMAIN other) |-> IF x \in DOMAIN other THEN other[x] ELSE m[x]]

(* ------------------------------------------------------------------ *)
(* serde_qs::to_string of a HashMap<&str, &str>                        *)
(* ------------------------------------------------------------------ *)
IsAlnum(b) == (b >= 48 /\ b <= 57) \/ (b >= 65 /\ b <= 90) \/ (b >= 97 /\ b <= 122)

UpperHexDigit(d) == IF d < 10 THEN 48 + d ELSE 55 + d

\* percent-encoding of one byte of a key or value
QsEscape(b) ==
  IF IsAlnum(b) \/ b \in {Ascii["*"], Ascii["-"], Ascii["."], Ascii["_"]} THEN <<b>>
  ELSE IF b = Ascii[" "] THEN <<Ascii["+"]>>
  ELSE <<Ascii["%"], UpperHexDigit(b \div 16), UpperHexDigit(b % 16)>>

RECURSIVE QsEncode(_)
QsEncode(str) == IF str = <<>> THEN <<>> ELSE QsEscape(Head(str)) \o QsEncode(Tail(str))

\* the iteration orders of a HashMap: every enumeration of its keys
Orders(m) ==
  {f \in [1..Cardinality(DOMAIN m) -> DOMAIN m] :
     \A i, j \in DOMAIN f : i # j => f[i] # f[j]}

RECURSIVE QsJoin(_, _, _)
QsJoin(m, order, i) ==
  IF i > Len(order) THEN <<>>
  ELSE (IF i > 1 THEN <<Ascii["&"]>> ELSE <<>>)
       \o QsEncode(order[i]) \o <<Ascii["="]>> \o QsEncode(m[order[i]])
       \o QsJoin(m, order, i + 1)

\* key=value pairs joined by '&', in the map's iteration order
qs_to_string(m, order) == QsJoin(m, order, 1)

(* ------------------------------------------------------------------ *)
(* Inputs                                                              *)
(* ------------------------------------------------------------------ *)
\* number of distinct 16-byte nonces drawn by the random source, minus one
MaxRandom == 1

DEFAULT_EXPIRY == 86400

\* a wall clock two seconds before an f32 rounding boundary of the epoch
ClockStart == 14015625 * 128 + 62

Secrets == {<<>>, S(<<"s">>)}
\* the secrets of directly constructed sessions
SignSecrets == {S(<<"s">>)}
UserIds == {S(<<"u">>)}
PartnerIds == {12}
Expiries == {0, 3600}
PrivilegeStrings ==
  { <<>>,
    S(<<"*">>),
    S(<<"k", ":", "1", ",", "k", ":", "2">>),
    S(<<"_", "u", ":", "o">>),
    S(<<"a", ":", "b", ":", "c">>),
    S(<<" ", "c">>) }
\* the session types of directly constructed sessions (the default is USER)
SessionTypes == {"ADMIN"}
KsValues == {<<>>, S(<<"k", "s">>)}
ServiceUrls == {S(<<"l">>)}
KALTURA_API_ENDPOINT == S(<<"k">>)

\* gen_range(65..126) drawn AES_KEY_LEN times
RandomPool == {[i \in 1..AES_KEY_LEN |-> 65 + ((k * i) % 61)] : k \in 0..MaxRandom}

(* ------------------------------------------------------------------ *)
(* State                                                               *)
(* ------------------------------------------------------------------ *)
VARIABLES
  pc,            \* position of the caller: start, building, ready, gs, built, done_v1, done_v2
  origin,        \* how the session was constructed: none, new, literal, default, builder
  session,       \* the KalturaSession
  service_url,   \* KalturaClientConfig.service_url
  clock,         \* the wall clock, whole seconds since the epoch
  calls,         \* with_* calls made on the builder
  with_ks_arg,   \* the last value passed to with_ks
  generator,     \* the generator that ran: none, v1, v2
  now1,          \* clock reading of the first session_duration call
  t1,            \* result of the first session_duration call
  t2,            \* result of the second session_duration call of generate_session
  raw,           \* the bytes handed to URL_SAFE.encode
  session_str,   \* generate_session: the session_data string
  pairs,         \* generate_privileges: the items of the map() iterator
  privileges,    \* generate_privileges: the collected HashMap
  session_data,  \* generate_session_v2: the field HashMap
  buffer,        \* generate_session_v2: random bytes followed by the query string
  pre,           \* generate_session_v2: the vector handed to aes_encrypt
  cipher,        \* outcome of encrypt_padded_mut: none, Ok, Err
  ret            \* what generate_session_v2 returned: none, unit

vars == <<pc, origin, session, service_url, clock, calls, with_ks_arg, generator,
          now1, t1, t2, raw, session_str, pairs, privileges, session_data,
          buffer, pre, cipher, ret>>

v1locals == <<now1, t1, t2, raw, session_str>>
v2locals == <<pairs, privileges, session_data, buffer, pre, cipher, ret>>
builder == <<service_url, calls, with_ks_arg>>

\* #[derive(Default)] of KalturaSession
DefaultSession ==
  [secret |-> <<>>, user_id |-> <<>>, partner_id |-> 0, expiry |-> 0,
   privileges |-> <<>>, session_type |-> "USER", ks |-> <<>>]

Init ==
  /\ pc = "start"
  /\ origin = "none"
  /\ session = DefaultSession
  /\ service_url = KALTURA_API_ENDPOINT
  /\ clock = ClockStart
  /\ calls = 0
  /\ with_ks_arg = <<>>
  /\ generator = "none"
  /\ now1 = 0 /\ t1 = 0 /\ t2 = 0
  /\ raw = <<>> /\ session_str = <<>>
  /\ pairs = <<>> /\ privileges = EmptyMap /\ session_data = EmptyMap
  /\ buffer = <<>> /\ pre = <<>>
  /\ cipher = "none" /\ ret = "none"

(* ------------------------------------------------------------------ *)
(* models/session.rs                                                   *)
(* ------------------------------------------------------------------ *)
\* KalturaSession::new
New(secret, user_id, partner_id, expiry, privs, session_type) ==
  /\ pc = "start"
  /\ session' = [secret |-> secret, user_id |-> user_id, partner_id |-> partner_id,
                 expiry |-> IF expiry = 0 THEN DEFAULT_EXPIRY ELSE expiry,
                 privileges |-> privs, session_type |-> session_type, ks |-> <<>>]
  /\ origin' = "new"
  /\ pc' = "ready"
  /\ UNCHANGED <<clock, generator, builder, v1locals, v2locals>>

\* a KalturaSession struct literal (all fields are pub)
Literal(secret, user_id, partner_id, expiry, privs, session_type) ==
  /\ pc = "start"
  /\ session' = [secret |-> secret, user_id |-> user_id, partner_id |-> partner_id,
                 expiry |-> expiry, privileges |-> privs,
                 session_type |-> session_type, ks |-> <<>>]
  /\ origin' = "literal"
  /\ pc' = "ready"
  /\ UNCHANGED <<clock, generator, builder, v1locals, v2locals>>

\* KalturaSession::default()
Default ==
  /\ pc = "start"
  /\ session' = DefaultSession
  /\ origin' = "default"
  /\ pc' = "ready"
  /\ UNCHANGED <<clock, generator, builder, v1locals, v2locals>>

(* ------------------------------------------------------------------ *)
(* lib.rs: KalturaClientBuilder                                        *)
(* ------------------------------------------------------------------ *)
\* KalturaClient::builder() / KalturaClientBuilder::new()
Builder ==
  /\ pc = "start"
  /\ session' = DefaultSession
  /\ origin' = "builder"
  /\ pc' = "building"
  /\ UNCHANGED <<clock, generator, builder, v1locals, v2locals>>

WithCall ==
  /\ pc = "building"
  /\ calls < MaxCalls
  /\ calls' = calls + 1
  /\ UNCHANGED <<pc, origin, clock, generator, v1locals, v2locals>>

with_admin_secret(admin_secret) ==
  /\ WithCall
  /\ session' = [session EXCEPT !.secret = admin_secret]
  /\ UNCHANGED <<service_url, with_ks_arg>>

with_service_url(url) ==
  /\ WithCall
  /\ service_url' = url
  /\ UNCHANGED <<session, with_ks_arg>>

with_user_id(user_id) ==
  /\ WithCall
  /\ session' = [session EXCEPT !.user_id = user_id]
  /\ UNCHANGED <<service_url, with_ks_arg>>

with_partner_id(partner_id) ==
  /\ WithCall
  /\ session' = [session EXCEPT !.partner_id = partner_id]
  /\ UNCHANGED <<service_url, with_ks_arg>>

with_permissions(permissions) ==
  /\ WithCall
  /\ session' = [session EXCEPT !.privileges = permissions]
  /\ UNCHANGED <<service_url, with_ks_arg>>

with_ks(ks) ==
  /\ WithCall
  /\ session' = [session EXCEPT !.ks = ks]
  /\ with_ks_arg' = ks
  /\ UNCHANGED service_url

\* a build() that generates whenever a secret is present
BuildGeneratesAnyKs(s) == Len(s.secret) > 0

\* the condition of build(): ks == "" && secret.len() > 0
BuildGenerates(s) == s.ks = <<>> /\ Len(s.secret) > 0

(* ------------------------------------------------------------------ *)
(* lib.rs: generate_session                                            *)
(* ------------------------------------------------------------------ *)
\* format!("{};{};{};{};{:.4};{};{};;", ..) with the two f32 arguments a, b
V1Payload(s, a, b) ==
  FmtInt(s.partner_id) \o S(<<";">>) \o FmtInt(s.partner_id) \o S(<<";">>)
  \o FmtInt(a) \o S(<<";">>) \o FmtInt(0) \o S(<<";">>)
  \o FmtInt(b) \o S(<<".", "0", "0", "0", "0">>) \o S(<<";">>)
  \o s.user_id \o S(<<";">>) \o s.privileges \o S(<<";", ";">>)

\* generate_session up to the first session_duration call
GenerateSessionBegin ==
  /\ now1' = clock
  /\ t1' = session_duration(clock, session.expiry)
  /\ generator' = "v1"
  /\ pc' = "gs"
  /\ UNCHANGED <<origin, session, clock, builder, t2, raw, session_str, v2locals>>

\* generate_session called on a constructed session
generate_session ==
  /\ pc = "ready"
  /\ GenerateSessionBegin

\* KalturaClientBuilder::build
build ==
  /\ pc = "building"
  /\ IF BuildGenerates(session)
     THEN GenerateSessionBegin
     ELSE /\ pc' = "built"
          /\ UNCHANGED <<origin, session, clock, generator, builder, v1locals, v2locals>>

\* generate_session from the second session_duration call to its return
GenerateSessionEnd ==
  /\ pc = "gs"
  /\ LET b    == session_duration(clock, session.expiry)
         data == V1Payload(session, t1, b)
         hash == sha1(session.secret \o data)
         enc  == FmtHex(hash) \o data
     IN  /\ t2' = b
         /\ session_str' = data
         /\ raw' = enc
         /\ session' = [session EXCEPT !.ks = URL_SAFE_encode(enc)]
  /\ pc' = IF origin = "builder" THEN "built" ELSE "done_v1"
  /\ UNCHANGED <<origin, clock, generator, builder, now1, t1, v2locals>>

(* ------------------------------------------------------------------ *)
(* lib.rs: generate_session_v2                                         *)
(* ------------------------------------------------------------------ *)
RECURSIVE InsertFront(_, _)
\* for_each(|b| buffer.insert(0, *b)) over the items of an iterator
InsertFront(items, buf) ==
  IF items = <<>> THEN buf ELSE InsertFront(Tail(items), <<Head(items)>> \o buf)

\* the digest bytes inserted without .rev()
PrependDigestNoRev(buf) == InsertFront(sha1(buf), buf)

\* crypto::sha1(&buffer).iter().rev().for_each(|b| buffer.insert(0, *b))
PrependDigest(buf) == InsertFront(Rev(sha1(buf)), buf)

KeyE == S(<<"_", "e">>)
KeyU == S(<<"_", "u">>)
KeyT == S(<<"_", "t">>)

generate_session_v2 ==
  /\ pc = "ready"
  /\ \E random \in RandomPool, outcome \in CipherOutcomes :
       LET duration == FmtInt(session_duration(clock, session.expiry))
           items    == PrivilegePairs(session)
           privs    == generate_privileges(session)
           data     == Extend(Insert(Insert(Insert(EmptyMap, KeyE, duration),
                                            KeyU, session.user_id),
                                     KeyT, S(<<"0">>)),
                              privs)
       IN  \E order \in Orders(data) :
             LET buf  == random \o qs_to_string(data, order)
                 full == PrependDigest(buf)
                 enc  == aes_encrypt(full, sha1(session.secret), AES_IV, outcome)
                 ks   == S(<<"v", "2", "|">>) \o FmtInt(session.partner_id)
                         \o S(<<"|">>) \o enc.data
             IN  /\ now1' = clock
                 /\ t1' = session_duration(clock, session.expiry)
                 /\ pairs' = items
                 /\ privileges' = privs
                 /\ session_data' = data
                 /\ buffer' = buf
                 /\ pre' = full
                 /\ cipher' = outcome
                 /\ raw' = ks
                 /\ session' = [session EXCEPT !.ks = URL_SAFE_encode(ks)]
  /\ ret' = "unit"
  /\ generator' = "v2"
  /\ pc' = "done_v2"
  /\ UNCHANGED <<origin, clock, builder, t2, session_str>>

(* ------------------------------------------------------------------ *)
(* The wall clock                                                      *)
(* ------------------------------------------------------------------ *)
Tick ==
  /\ clock - ClockStart < MaxTicks
  /\ clock' = clock + 1
  /\ UNCHANGED <<pc, origin, session, generator, builder, v1locals, v2locals>>

Next ==
  \/ \E s \in SignSecrets, u \in UserIds, p \in PartnerIds, e \in Expiries,
        pr \in PrivilegeStrings, st \in SessionTypes : New(s, u, p, e, pr, st)
  \/ \E s \in SignSecrets, u \in UserIds, p \in PartnerIds, e \in Expiries,
        pr \in PrivilegeStrings, st \in SessionTypes : Literal(s, u, p, e, pr, st)
  \/ Default
  \/ Builder
  \/ \E s \in Secrets : with_admin_secret(s)
  \/ \E l \in ServiceUrls : with_service_url(l)
  \/ \E u \in UserIds : with_user_id(u)
  \/ \E p \in PartnerIds : with_partner_id(p)
  \/ \E pr \in PrivilegeStrings : with_permissions(pr)
  \/ \E k \in KsValues : with_ks(k)
  \/ build
  \/ generate_session
  \/ GenerateSessionEnd
  \/ generate_session_v2
  \/ Tick

Spec == Init /\ [][Next]_vars

(* ------------------------------------------------------------------ *)
(* Properties                                                          *)
(* ------------------------------------------------------------------ *)
Returned == pc \in {"built", "done_v1", "done_v2"} /\ generator # "none"
ReturnedV1 == pc \in {"built", "done_v1"} /\ generator = "v1"
ReturnedV2 == pc = "done_v2"

\* C1: a session whose expiry is exactly 0 is given a lifetime of 86400
\* seconds by both generators: the expiry written into the token is the
\* clock reading plus 86400, never the clock reading plus 0.
C1_ZeroExpiryUsesDefault ==
  (Returned /\ session.expiry = 0) =>
    /\ t1 = session_duration(now1, DEFAULT_EXPIRY)
    /\ ReturnedV2 => session_data[KeyE] = FmtInt(session_duration(now1, DEFAULT_EXPIRY))
    /\ ReturnedV1 => \E b \in {t1, t2} :
         session_str = V1Payload(session, session_duration(now1, DEFAULT_EXPIRY), b)

\* C2: after build(), if the final secret is non-empty and the final ks is
\* empty then session.ks is a non-empty generated token; in every other case
\* session.ks is exactly the last value passed to with_ks (empty if it was
\* never called) and no generator ran.
C2_BuildKs ==
  pc = "built" =>
    IF Len(session.secret) > 0 /\ with_ks_arg = <<>>
    THEN generator = "v1" /\ session.ks # <<>> /\ session.ks # with_ks_arg
    ELSE generator = "none" /\ session.ks = with_ks_arg

C2_Witness ==
  /\ pc = "built"
  /\ calls = MaxCalls
  /\ Len(session.secret) > 0
  /\ with_ks_arg = <<>>
  /\ session.ks # <<>>

C4_ReservedKeysWin ==
  ReturnedV2 =>
    /\ session_data[KeyE] = FmtInt(t1)
    /\ session_data[KeyU] = session.user_id
    /\ session_data[KeyT] = S(<<"0">>)

\* C5: with an empty privileges string generate_privileges yields no
\* directive and the field set has exactly the keys _e, _u, _t.
C5_EmptyPrivileges ==
  (ReturnedV2 /\ session.privileges = <<>>) =>
    /\ pairs = <<>>
    /\ DOMAIN privileges = {}
    /\ DOMAIN session_data = {KeyE, KeyU, KeyT}

\* C6: generate_privileges keeps every directive of the input: n segments
\* give n directives, and the directive of every segment is in the output,
\* also when two segments have the same key.
C6_AllDirectivesPreserved ==
  ReturnedV2 =>
    /\ Cardinality(DOMAIN privileges) = Len(Split(session.privileges, Ascii[","]))
    /\ \A i \in 1..Len(pairs) :
         /\ pairs[i][1] \in DOMAIN privileges
         /\ privileges[pairs[i][1]] = pairs[i][2]

C8_SingleInstant ==
  ReturnedV1 =>
    /\ t1 = t2
    /\ session_str = V1Payload(session, session_duration(now1, session.expiry),
                               session_duration(now1, session.expiry))

UrlSafeAlphabet == (65..90) \cup (97..122) \cup (48..57) \cup {Ascii["-"], Ascii["_"]}

ClaimedPair(seg) ==
  LET t == Trim(seg)
  IN  IF t = S(<<"*">>) THEN <<S(<<"a", "l", "l">>), S(<<"*">>)>>
      ELSE IF Contains(t, Ascii[":"])
      THEN LET i == IndexOf(t, Ascii[":"], 1)
           IN  <<SubSeq(t, 1, i - 1), SubSeq(t, i + 1, Len(t))>>
      ELSE <<t, <<>>>>

\* C10: every segment s, trimmed to t, yields ("all", "*") if t = "*", the
\* text before and all the text after the first ':' if t has one, and
\* (t, "") otherwise.
C10_DirectivePerSegment ==
  ReturnedV2 =>
    LET segs == Split(session.privileges, Ascii[","])
    IN  /\ Len(pairs) = Len(segs)
        /\ \A i \in 1..Len(segs) : pairs[i] = ClaimedPair(segs[i])

====
